---- MODULE Spec2Model ----
(***************************************************************************)
(* Sentiment-analysis service (prod/app/api.py) and its Streamlit client   *)
(* (prod/app/web.py).                                                      *)
(*                                                                         *)
(*   Spec     the FastAPI process: the startup load and the three routes   *)
(*   SpecEnc  the encoding steps of /predict as a function of the tokens   *)
(*   SpecWeb  the Streamlit script, one action per rerun of the page       *)
(***************************************************************************)
EXTENDS Integers, Sequences, FiniteSets, TLC

VARIABLES
    model,          \* api.py global `model`
    tokenizer,      \* api.py global `tokenizer`
    startup,        \* position of the startup event handler
    req,            \* the last request handled, with the globals it met
    resp,           \* outcome of the last request handled
    fault,          \* what went wrong behind the head checks of the last request
    calls,          \* collaborators invoked while handling the last request
    padded,         \* argument of model.predict in the last request
    decision,       \* locals score / sentiment / confidence of the last request
    encTokenizer,   \* SpecEnc: the tokenizer used
    encTokens,      \* SpecEnc: the token list returned by clean_text
    encPadded,      \* SpecEnc: the padded sequence
    encDone,        \* SpecEnc: the encoding steps have run
    session,        \* web.py st.session_state
    reportShown,    \* web.py: the last run rendered the report button
    predSeq,        \* web.py: number of predictions stored so far
    lastRun,        \* web.py: requests sent by the last run of the script
    acked,          \* web.py: predictions whose report was answered 200
    clickedFor,     \* web.py: predictions whose report button was clicked
    sentAfterAck    \* web.py: predictions reported again after a 200 answer

apiVars == <<model, tokenizer, startup, req, resp, fault, calls, padded, decision>>
encVars == <<encTokenizer, encTokens, encPadded, encDone>>
webVars == <<session, reportShown, predSeq, lastRun, acked, clickedFor, sentAfterAck>>
vars == <<apiVars, encVars, webVars>>

----------------------------------------------------------------------------
(* Constants and bounds *)

MAX_LEN == 30

\* longest token list handed to the encoder
MaxTokens == 32

\* raw scores are the dyadic rationals n / 2^ScoreBits (a float32 is one)
ScoreBits == 5

\* predictions one Streamlit session stores
MaxAnalyses == 3

\* Python's None
None == [kind |-> "None"]

----------------------------------------------------------------------------
(* Floats: NaN or a number. Raw scores count in units of 2^-ScoreBits,      *)
(* rounded ones in units of 10^-4.                                          *)

NaN == [nan |-> TRUE, v |-> 0]
Num(n) == [nan |-> FALSE, v |-> n]

One == 2 ^ ScoreBits
Half == One \div 2

\* a >= b on floats: false as soon as one side is NaN
FGe(a, b) == ~a.nan /\ ~b.nan /\ a.v >= b.v

\* a - b on floats
FSub(a, b) == IF a.nan \/ b.nan THEN NaN ELSE Num(a.v - b.v)

\* nearest integer to a / b (b > 0), ties to the even one
RoundHalfEven(a, b) ==
    LET q == a \div b
        r == a % b
    IN  IF 2 * r < b THEN q
        ELSE IF 2 * r > b THEN q + 1
        ELSE IF q % 2 = 0 THEN q ELSE q + 1

\* round(x, 4): the result counts in units of 10^-4
Round4(x) == IF x.nan THEN NaN ELSE Num(RoundHalfEven(x.v * 10000, One))

----------------------------------------------------------------------------
(* Request texts: sequences of characters *)

Whitespace == {" ", "\t", "\n"}

Texts == { <<>>, <<" ">>, <<" ", "\t", "\n">>, <<"a">>, <<" ", "a", " ", "b">> }

\* str.strip(): drop leading and trailing whitespace
RECURSIVE LStrip(_)
LStrip(s) ==
    IF s = <<>> THEN <<>>
    ELSE IF Head(s) \in Whitespace THEN LStrip(Tail(s)) ELSE s

RECURSIVE RStrip(_)
RStrip(s) ==
    IF s = <<>> THEN <<>>
    ELSE IF s[Len(s)] \in Whitespace THEN RStrip(SubSeq(s, 1, Len(s) - 1)) ELSE s

Strip(s) == RStrip(LStrip(s))

\* the check that refuses whitespace-only text and lets the empty text through
IsBlankMissesEmpty(text) == text # <<>> /\ Strip(text) = <<>>

\* `not request.text or request.text.strip() == ""`
IsBlank(text) == text = <<>> \/ Strip(text) = <<>>

----------------------------------------------------------------------------
(* Sequence encoding: " ".join, texts_to_sequences, pad_sequences *)

Tokens == {"good", "bad", "zzz"}

\* a fitted tokenizer: with or without an oov_token
Tokenizers ==
    { [kind |-> "Tokenizer", oov_token |-> FALSE],
      [kind |-> "Tokenizer", oov_token |-> TRUE] }

\* word_index of the fitted tokenizer: indices start at 1, the oov_token
\* (when there is one) holds index 1; "zzz" was never seen in training
WordIndex(tk) ==
    IF tk.oov_token THEN [w \in {"good", "bad"} |-> IF w = "good" THEN 2 ELSE 3]
    ELSE [w \in {"good", "bad"} |-> IF w = "good" THEN 1 ELSE 2]

\* " ".join(tokens): the words with a separator between two neighbours
JoinTokens(tokens) ==
    IF tokens = <<>> THEN <<>>
    ELSE [i \in 1..(2 * Len(tokens) - 1) |->
            IF i % 2 = 1 THEN tokens[(i + 1) \div 2] ELSE " "]

\* the tokenizer splits the text on the separator
IsWord(c) == c # " "

SplitWords(text) == SelectSeq(text, IsWord)

\* the indices one word contributes: a word outside the vocabulary is
\* dropped when the tokenizer has no oov_token and maps to the oov index
\* otherwise
WordToIndices(tk, w) ==
    IF w \in DOMAIN WordIndex(tk) THEN <<WordIndex(tk)[w]>>
    ELSE IF tk.oov_token THEN <<1>>
    ELSE <<>>

WordsToSequence(tk, words) ==
    LET Kept(w) == WordToIndices(tk, w) # <<>>
        kept == SelectSeq(words, Kept)
    IN  [i \in 1..Len(kept) |-> WordToIndices(tk, kept[i])[1]]

\* tokenizer.texts_to_sequences([text_cleaned])[0]
TextsToSequences(tk, text) == WordsToSequence(tk, SplitWords(text))

\* pad_sequences without truncation
PadNoTruncation(seq, maxlen) ==
    seq \o [i \in 1..(IF Len(seq) < maxlen THEN maxlen - Len(seq) ELSE 0) |-> 0]

\* pad_sequences with its defaults, padding='pre' and truncating='pre'
PadPre(seq, maxlen) ==
    IF Len(seq) > maxlen THEN SubSeq(seq, Len(seq) - maxlen + 1, Len(seq))
    ELSE [i \in 1..(maxlen - Len(seq)) |-> 0] \o seq

\* pad_sequences(.., maxlen, padding='post', truncating='post')[0]
PadSequences(seq, maxlen) ==
    IF Len(seq) > maxlen THEN SubSeq(seq, 1, maxlen)
    ELSE seq \o [i \in 1..(maxlen - Len(seq)) |-> 0]

\* lines 145-149 of predict_sentiment
Encode(tk, tokens) ==
    PadSequences(TextsToSequences(tk, JoinTokens(tokens)), MAX_LEN)

\* token lists: n tokens, all "good" but for the tokens at positions p and q
TokenSeq(n, p, tp, q, tq) ==
    [i \in 1..n |-> IF i = p THEN tp ELSE IF i = q THEN tq ELSE "good"]

TokenSeqs ==
    { TokenSeq(n, p, tp, n, tq) :
        n \in 0..MaxTokens, p \in 1..MaxTokens, tp \in Tokens, tq \in Tokens }

\* the token lists the requests of Spec are answered with
ApiLens == {0, 1, MaxTokens}

ApiTokenSeqs ==
    { TokenSeq(n, 1, tp, n, tq) : n \in ApiLens, tp \in {"good", "zzz"}, tq \in {"bad", "zzz"} }

----------------------------------------------------------------------------
(* The FastAPI process *)

NoBody == [text |-> <<>>, sentiment |-> "", confidence |-> NaN, score |-> NaN]
NoResp == [endpoint |-> "", status |-> 0, detail |-> <<>>, body |-> NoBody]
NoDecision == [reached |-> FALSE, score |-> NaN, sentiment |-> "", confidence |-> NaN]

Detail503 == <<"Le modele ou le tokenizer n'est pas charge">>
DetailEmpty == <<"Le texte ne peut pas etre vide">>
DetailNoTokens == <<"Le texte ne contient aucun mot valide apres nettoyage">>
\* f"Erreur lors de la prédiction : {str(e)}"
Detail500(e) == <<"Erreur lors de la prediction : ", e>>

DetailServerError == <<"Internal Server Error">>

HTTPException(status, detail) ==
    [endpoint |-> "/predict", status |-> status, detail |-> detail, body |-> NoBody]

\* what the startup handler can meet: each load succeeds or raises
LoadOutcomes == {"ok", "load_model_raises", "compile_raises", "pickle_load_raises"}

\* what clean_text can do: return a token list or raise
NormalizerOutcomes ==
    { [raises |-> FALSE, tokens |-> t, e |-> ""] : t \in ApiTokenSeqs }
        \cup { [raises |-> TRUE, tokens |-> <<>>, e |-> "LookupError"] }

\* what the steps behind clean_text can do: the model returns a raw score
\* (the loaded artifact is opaque: nothing in the handler bounds its output),
\* or one of the steps raises
RawScores == { Num(n) : n \in (0 - 1)..(One + 1) } \cup { Num(One + Half), NaN }

PipelineOutcomes ==
    { [raises |-> "", e |-> "", score |-> sc] : sc \in RawScores }
        \cup { [raises |-> st, e |-> "ValueError", score |-> NaN] :
                 st \in {"tokenizer", "pad", "model"} }

\* lines 145-149 for each tokenizer and each token list of the requests
Encoded == [tk \in Tokenizers |-> [t \in ApiTokenSeqs |-> Encode(tk, t)]]

NoReq == [endpoint |-> "", text |-> <<>>, model |-> None, tokenizer |-> None,
          startup |-> "pending"]
NoFault == [step |-> "", e |-> ""]

Request(endpoint, text) ==
    [endpoint |-> endpoint, text |-> text, model |-> model, tokenizer |-> tokenizer,
     startup |-> startup]

InitApi ==
    /\ model = None
    /\ tokenizer = None
    /\ startup = "pending"
    /\ req = NoReq
    /\ resp = NoResp
    /\ fault = NoFault
    /\ calls = {}
    /\ padded = <<>>
    /\ decision = NoDecision

\* lines 40-62: `model` is assigned before compile() runs, `tokenizer` last
LoadArtifacts ==
    /\ \E outcome \in LoadOutcomes, tk \in Tokenizers :
        /\ model' = IF outcome = "load_model_raises" THEN None ELSE [kind |-> "Model"]
        /\ tokenizer' = IF outcome = "ok" THEN tk ELSE None
        /\ startup' = IF outcome = "ok" THEN "complete" ELSE "failed"
    /\ UNCHANGED <<req, resp, fault, calls, padded, decision, encVars, webVars>>

\* the load run whenever asked for, not once
LoadOnDemand == LoadArtifacts

\* lines 37-62: the startup event handler, which the server runs once
LoadModelAndTokenizer ==
    /\ startup = "pending"
    /\ LoadArtifacts

\* lines 94-104
Root ==
    /\ req' = Request("/", <<>>)
    /\ resp' = [endpoint |-> "/", status |-> 200, detail |-> <<>>, body |-> NoBody]
    /\ fault' = NoFault /\ calls' = {} /\ padded' = <<>> /\ decision' = NoDecision
    /\ UNCHANGED <<model, tokenizer, startup, encVars, webVars>>

\* line 111 with `or` for `and`
ModelLoadedEither == model # None \/ tokenizer # None

ModelLoaded == model # None /\ tokenizer # None

\* lines 106-112
HealthCheck ==
    /\ req' = Request("/health", <<>>)
    /\ resp' = [endpoint |-> "/health", status |-> 200, detail |-> <<>>,
                body |-> [status |-> "healthy", model_loaded |-> ModelLoaded]]
    /\ fault' = NoFault /\ calls' = {} /\ padded' = <<>> /\ decision' = NoDecision
    /\ UNCHANGED <<model, tokenizer, startup, encVars, webVars>>

\* line 124
NotReady == model = None \/ tokenizer = None

\* lines 124-134 with the two checks in the other order
HeadChecksTextFirst(text) ==
    IF IsBlank(text) THEN 400 ELSE IF NotReady THEN 503 ELSE 0

\* lines 124-134: the status the head of the handler raises, 0 when it lets
\* the request through
HeadChecks(text) ==
    IF NotReady THEN 503 ELSE IF IsBlank(text) THEN 400 ELSE 0

\* line 154 with `>` for `>=`
SentimentStrict(score) == IF FGe(score, Num(Half + 1)) THEN "positif" ELSE "negatif"

\* lines 154-159
Sentiment(score) == IF FGe(score, Num(Half)) THEN "positif" ELSE "negatif"

Confidence(score) == IF FGe(score, Num(Half)) THEN score ELSE FSub(Num(One), score)

\* the statuses under which a returned PredictResponse leaves the server: a
\* NaN field is refused or replaced by the JSON encoder, depending on the
\* framework's version
ResponseStatuses(body) ==
    IF body.confidence.nan \/ body.score.nan THEN {200, 500} ELSE {200}

\* the `except` clauses of lines 168-174 without the first one
OnExceptionCatchAll(kind, e) == HTTPException(500, Detail500(e))

\* the `except` clauses of lines 168-174
OnException(kind, e) ==
    IF kind = "HTTPException" THEN e ELSE HTTPException(500, Detail500(e))

\* lines 114-174
PredictSentiment ==
    \E text \in Texts :
        /\ req' = Request("/predict", text)
        /\ IF HeadChecks(text) = 503 THEN
               /\ resp' = HTTPException(503, Detail503)
               /\ fault' = NoFault
               /\ calls' = {}
               /\ padded' = <<>>
               /\ decision' = NoDecision
           ELSE IF HeadChecks(text) = 400 THEN
               /\ resp' = HTTPException(400, DetailEmpty)
               /\ fault' = NoFault
               /\ calls' = {}
               /\ padded' = <<>>
               /\ decision' = NoDecision
           ELSE \E norm \in NormalizerOutcomes :
               IF norm.raises THEN
                   /\ resp' = OnException("Exception", norm.e)
                   /\ fault' = [step |-> "normalizer", e |-> norm.e]
                   /\ calls' = {"normalizer"}
                   /\ padded' = <<>>
                   /\ decision' = NoDecision
               ELSE IF norm.tokens = <<>> THEN
                   /\ resp' = OnException("HTTPException", HTTPException(400, DetailNoTokens))
                   /\ fault' = [step |-> "no_tokens", e |-> ""]
                   /\ calls' = {"normalizer"}
                   /\ padded' = <<>>
                   /\ decision' = NoDecision
               ELSE LET encoded == Encoded[tokenizer][norm.tokens] IN
                   \E out \in PipelineOutcomes :
                   IF out.raises = "tokenizer" THEN
                       /\ resp' = OnException("Exception", out.e)
                       /\ fault' = [step |-> "tokenizer", e |-> out.e]
                       /\ calls' = {"normalizer", "tokenizer"}
                       /\ padded' = <<>>
                       /\ decision' = NoDecision
                   ELSE IF out.raises = "pad" THEN
                       /\ resp' = OnException("Exception", out.e)
                       /\ fault' = [step |-> "pad", e |-> out.e]
                       /\ calls' = {"normalizer", "tokenizer", "pad"}
                       /\ padded' = <<>>
                       /\ decision' = NoDecision
                   ELSE IF out.raises = "model" THEN
                       /\ resp' = OnException("Exception", out.e)
                       /\ fault' = [step |-> "model", e |-> out.e]
                       /\ calls' = {"normalizer", "tokenizer", "pad", "model"}
                       /\ padded' = encoded
                       /\ decision' = NoDecision
                   ELSE
                       LET body == [text |-> text,
                                    sentiment |-> Sentiment(out.score),
                                    confidence |-> Round4(Confidence(out.score)),
                                    score |-> Round4(out.score)]
                       IN  /\ fault' = NoFault
                           /\ calls' = {"normalizer", "tokenizer", "pad", "model"}
                           /\ padded' = encoded
                           /\ decision' = [reached |-> TRUE, score |-> out.score,
                                           sentiment |-> Sentiment(out.score),
                                           confidence |-> Confidence(out.score)]
                           /\ \E st \in ResponseStatuses(body) :
                               resp' = IF st = 200
                                       THEN [endpoint |-> "/predict", status |-> 200,
                                             detail |-> <<>>, body |-> body]
                                       ELSE HTTPException(500, DetailServerError)
        /\ UNCHANGED <<model, tokenizer, startup, encVars, webVars>>

----------------------------------------------------------------------------
(* The encoding steps on their own *)

InitEnc ==
    /\ encTokenizer \in Tokenizers
    /\ encTokens \in TokenSeqs
    /\ encPadded = <<>>
    /\ encDone = FALSE

\* lines 145-149
EncodeTokens ==
    /\ ~encDone
    /\ encPadded' = Encode(encTokenizer, encTokens)
    /\ encDone' = TRUE
    /\ UNCHANGED <<encTokenizer, encTokens, apiVars, webVars>>

----------------------------------------------------------------------------
(* The Streamlit script *)

\* what the user did to the page to make the script run again
Widgets ==
    {"none", "text_area", "example_positive", "example_negative", "example_neutral",
     "analyze", "report"}

Examples ==
    [w \in {"example_positive", "example_negative", "example_neutral"} |->
        IF w = "example_positive" THEN "I love this amazing product!"
        ELSE IF w = "example_negative" THEN "This is terrible and I hate it"
        ELSE "I went to the store today"]

\* answers to POST /predict as the script tells them apart (lines 140-161)
PredictAnswers ==
    { [kind |-> "response", status |-> 200, sentiment |-> sn] : sn \in {"positif", "negatif"} }
        \cup { [kind |-> "response", status |-> st, sentiment |-> ""] : st \in {400, 500, 503} }
        \cup { [kind |-> k, status |-> 0, sentiment |-> ""] :
                 k \in {"ConnectionError", "Timeout", "Exception"} }

\* answers to POST /report-bad-prediction (lines 26-39); a 200 answer carries
\* the running count and the notification flag
ReportAnswers ==
    { [kind |-> "response", status |-> 200, email_sent |-> e] : e \in BOOLEAN }
        \cup { [kind |-> "response", status |-> st, email_sent |-> FALSE] : st \in {404, 500} }
        \cup { [kind |-> "Exception", status |-> 0, email_sent |-> FALSE] }

NoPrediction == [stored |-> 0, sentiment |-> ""]

InitWeb ==
    /\ session = [keys |-> {}, last_prediction |-> NoPrediction,
                  report_clicked |-> FALSE, text_input |-> ""]
    /\ reportShown = FALSE
    /\ predSeq = 0
    /\ lastRun = {}
    /\ acked = {}
    /\ clickedFor = {}
    /\ sentAfterAck = {}

\* del st.session_state.last_prediction, guarded by `in`
DelLastPrediction(s) ==
    [s EXCEPT !.keys = @ \ {"last_prediction"}, !.last_prediction = NoPrediction]

SetReportClicked(s, b) ==
    [s EXCEPT !.keys = @ \cup {"report_clicked"}, !.report_clicked = b]

\* lines 90-100
ExampleButtons(s, widget) ==
    IF widget \in DOMAIN Examples
    THEN [s EXCEPT !.keys = @ \cup {"text_input"}, !.text_input = Examples[widget]]
    ELSE s

\* lines 118-119
InitReportClicked(s) ==
    IF "report_clicked" \notin s.keys THEN SetReportClicked(s, FALSE) ELSE s

\* line 123
SendsPredict(widget, text) == widget = "analyze" /\ ~IsBlank(text)

\* lines 122-161
Analyze(s, widget, text, answer, k) ==
    IF ~SendsPredict(widget, text) THEN s
    ELSE LET cleared == SetReportClicked(DelLastPrediction(s), FALSE)
         IN  IF answer.kind = "response" /\ answer.status = 200
             THEN [cleared EXCEPT !.keys = @ \cup {"last_prediction"},
                                  !.last_prediction =
                                      [stored |-> k, sentiment |-> answer.sentiment]]
             ELSE cleared

\* line 164
ShowsResults(s) == "last_prediction" \in s.keys /\ ~s.report_clicked

\* lines 234-235: the button reports a click only in a run that renders it
ReportButton(s, widget) ==
    IF ShowsResults(s) /\ widget = "report" THEN SetReportClicked(s, TRUE) ELSE s

\* line 238
SendsReport(s) == s.report_clicked /\ "last_prediction" \in s.keys

\* lines 6-39 without the clearing of the prediction
ReportKeepsPrediction(s, answer) ==
    IF answer.kind = "response" /\ answer.status = 200
    THEN SetReportClicked(s, FALSE)
    ELSE s

\* lines 6-39
ReportBadPrediction(s, answer) ==
    IF answer.kind = "response" /\ answer.status = 200
    THEN SetReportClicked(DelLastPrediction(s), FALSE)
    ELSE s

\* one run of the script, top to bottom
Rerun ==
    \E widget \in Widgets, text \in Texts :
        /\ widget = "report" => reportShown
        /\ widget = "analyze" => predSeq < MaxAnalyses
        /\ \E pAnswer \in (IF SendsPredict(widget, text) THEN PredictAnswers
                           ELSE {CHOOSE a \in PredictAnswers : TRUE}) :
            LET s1 == InitReportClicked(ExampleButtons(session, widget))
                s2 == Analyze(s1, widget, text, pAnswer, predSeq + 1)
                s3 == ReportButton(s2, widget)
                clicked == ShowsResults(s2) /\ widget = "report"
                stores == "last_prediction" \in s2.keys /\ SendsPredict(widget, text)
            IN  /\ reportShown' = ShowsResults(s2)
                /\ predSeq' = IF stores THEN predSeq + 1 ELSE predSeq
                /\ clickedFor' = IF clicked THEN clickedFor \cup {s2.last_prediction.stored}
                                 ELSE clickedFor
                /\ IF SendsReport(s3)
                   THEN \E rAnswer \in ReportAnswers :
                       LET target == s3.last_prediction.stored IN
                       /\ session' = ReportBadPrediction(s3, rAnswer)
                       /\ lastRun' =
                            (IF SendsPredict(widget, text) THEN {[kind |-> "predict", pred |-> 0, status |-> pAnswer.status]} ELSE {})
                            \cup {[kind |-> "report", pred |-> target, status |-> rAnswer.status]}
                       /\ acked' = IF rAnswer.kind = "response" /\ rAnswer.status = 200
                                   THEN acked \cup {target} ELSE acked
                       /\ sentAfterAck' = IF target \in acked THEN sentAfterAck \cup {target}
                                          ELSE sentAfterAck
                   ELSE /\ session' = s3
                        /\ lastRun' =
                            (IF SendsPredict(widget, text) THEN {[kind |-> "predict", pred |-> 0, status |-> pAnswer.status]} ELSE {})
                        /\ UNCHANGED <<acked, sentAfterAck>>
        /\ UNCHANGED <<apiVars, encVars>>

----------------------------------------------------------------------------
(* Specifications *)

IdleEnc == encTokenizer = None /\ encTokens = <<>> /\ encPadded = <<>> /\ encDone = FALSE

\* the FastAPI process
Init == InitApi /\ IdleEnc /\ InitWeb

Next == LoadModelAndTokenizer \/ Root \/ HealthCheck \/ PredictSentiment

Spec == Init /\ [][Next]_vars

\* the encoding steps
InitEncSpec == InitApi /\ InitEnc /\ InitWeb

NextEnc == EncodeTokens

SpecEnc == InitEncSpec /\ [][NextEnc]_vars

\* the Streamlit script
InitWebSpec == InitApi /\ IdleEnc /\ InitWeb

NextWeb == Rerun

SpecWeb == InitWebSpec /\ [][NextWeb]_vars

----------------------------------------------------------------------------
(* Properties *)

IsPredict == req.endpoint = "/predict"
MetReady == req.model # None /\ req.tokenizer # None
InUnit(x) == ~x.nan /\ 0 <= x.v /\ x.v <= One

\* C1: whatever the text, a /predict request that finds the model or the
\* tokenizer missing is answered 503 without the normalizer, the tokenizer,
\* the padding or the model being invoked; they are invoked only for requests
\* that found both artifacts loaded.
C1_ReadinessCheckedFirst ==
    IsPredict =>
        /\ ~MetReady => (resp.status = 503 /\ calls = {} /\ ~decision.reached)
        /\ calls # {} => MetReady

C1_Witness ==
    /\ IsPredict /\ IsBlank(req.text)
    /\ req.model # None /\ req.tokenizer = None
    /\ resp.status = 503

\* C2 as stated: /predict with the empty text is answered 400 whether or not
\* the model and the tokenizer are loaded.
C2_EmptyTextAlways400 ==
    (IsPredict /\ req.text = <<>>) => resp.status = 400

\* C2 as amended: /predict with the empty text is answered 400 when the model
\* and the tokenizer are loaded, and 503 when one of them is not.
C2_EmptyText400WhenReady ==
    (IsPredict /\ req.text = <<>>) =>
        resp.status = (IF MetReady THEN 400 ELSE 503)

C2_Witness ==
    IsPredict /\ req.text = <<>> /\ MetReady /\ resp.status = 400 /\ resp.detail = DetailEmpty

\* C3: for a raw score in [0,1] the decision, taken on the unrounded score,
\* is positive iff score >= 0.5, with confidence = score when positive and
\* 1 - score when negative, so that the confidence lies in [0.5, 1]; the
\* response carries that sentiment.
C3_Decision ==
    (decision.reached /\ InUnit(decision.score)) =>
        /\ decision.sentiment = "positif" <=> decision.score.v >= Half
        /\ decision.sentiment \in {"positif", "negatif"}
        /\ decision.confidence =
             (IF decision.sentiment = "positif" THEN decision.score
              ELSE Num(One - decision.score.v))
        /\ Half <= decision.confidence.v /\ decision.confidence.v <= One
        /\ resp.status = 200 /\ resp.body.sentiment = decision.sentiment
        /\ resp.body.score = Round4(decision.score)
        /\ resp.body.confidence = Round4(decision.confidence)

C3_Witness ==
    /\ decision.reached /\ decision.score = Num(Half)
    /\ decision.sentiment = "positif" /\ resp.body.confidence = Num(5000)

\* C4 as stated: a raw score outside [0,1], or NaN, never reaches the
\* decision step and is never answered 200.
C4_ScoreOutsideUnitFails ==
    /\ decision.reached => InUnit(decision.score)
    /\ (IsPredict /\ resp.status = 200) => InUnit(decision.score)

\* C5: whatever the token list (empty, one token, more than MAX_LEN, words of
\* the vocabulary or not), the encoded sequence has exactly MAX_LEN entries.
C5_EncodedLength ==
    encDone => Len(encPadded) = MAX_LEN

C5_Witness ==
    /\ encDone /\ Len(encTokens) > MAX_LEN /\ Len(encPadded) = MAX_LEN
    /\ \E i \in 1..MAX_LEN : encTokens[i] = "zzz"

Indexed(tk, w) == Len(WordToIndices(tk, w)) = 1

C7_FailureClasses ==
    (IsPredict /\ MetReady /\ ~IsBlank(req.text)) =>
        /\ resp.status \in {200, 400, 500}
        /\ fault.step = "no_tokens" =>
               (resp.status = 400 /\ resp.detail = DetailNoTokens)
        /\ fault.step \in {"normalizer", "tokenizer", "pad", "model"} =>
               (resp.status = 500 /\ resp.detail = Detail500(fault.e))
        /\ resp.status = 200 => fault = NoFault
        /\ resp.status = 400 => fault.step = "no_tokens"

C7_Witness ==
    /\ IsPredict /\ MetReady /\ fault.step = "no_tokens"
    /\ calls = {"normalizer"} /\ resp.status = 400

\* C8: /health always answers 200 with status "healthy", and model_loaded is
\* true iff the model and the tokenizer are both set: false before the load,
\* true after a successful load, false when the model is set and the
\* tokenizer is not.
C8_Health ==
    (req.endpoint = "/health") =>
        /\ resp.status = 200 /\ resp.body.status = "healthy"
        /\ resp.body.model_loaded <=> MetReady
        /\ req.startup = "pending" => ~resp.body.model_loaded
        /\ req.startup = "complete" => resp.body.model_loaded
        /\ (req.model # None /\ req.tokenizer = None) => ~resp.body.model_loaded

C8_Witness ==
    /\ req.endpoint = "/health" /\ req.startup = "failed"
    /\ req.model # None /\ req.tokenizer = None
    /\ ~resp.body.model_loaded /\ resp.body.status = "healthy"

\* C9: the model and the tokenizer change only in the startup load, which
\* runs once; after a successful load no request changes them, and the
\* service stays ready.
C9_ArtifactsFrozen ==
    [][/\ (model' # model \/ tokenizer' # tokenizer) => startup = "pending"
       /\ startup # "pending" => startup' = startup
       /\ startup = "complete" => (model # None /\ tokenizer # None)]_vars

C9_Witness ==
    /\ startup = "complete" /\ model # None /\ tokenizer # None
    /\ IsPredict /\ req.startup = "complete" /\ resp.status = 500

====
